---- MODULE Spec2Model ----
(***************************************************************************)
(* Verification model of the retrieval back end.                           *)
(*                                                                         *)
(* Part I: the rerank call path of src/utils/siliconflow.py: the           *)
(* process-wide circuit breaker (_CircuitBreaker, _RERANK_CIRCUIT), the    *)
(* retry loop of rerank_async and its input-order fallback.                *)
(*                                                                         *)
(* Concurrency model: rerank_async is a coroutine.  It runs without        *)
(* interruption between two awaits, and the breaker methods take           *)
(* self._lock, so each breaker method is one atomic step.  The awaits of   *)
(* rerank_async are the HTTP post and the backoff sleep between attempts;  *)
(* other callers and the clock may move at those points.                   *)
(***************************************************************************)
EXTENDS Integers, Sequences, FiniteSets, TLC

----------------------------------------------------------------------------
(* Bounds of the explored configurations *)

\* largest SILICONFLOW_RERANK_CB_FAILURE_THRESHOLD explored
MaxThreshold == 2
\* largest SILICONFLOW_RERANK_MAX_ATTEMPTS explored
MaxAttemptsBound == 2
\* SILICONFLOW_RERANK_CB_RESET_SECONDS explored (clock ticks)
ResetSeconds == 2
\* last instant of the monotonic clock
MaxTime == 3
\* largest number of documents handed to one rerank call
MaxDocs == 2
\* number of rerank_async invocations in one behaviour
MaxCalls == 4

\* concurrent request-handling tasks that call rerank_async
Callers == {"t1", "t2"}

VARIABLES
    circuit,        \* _RERANK_CIRCUIT: [state, failure_count, opened_at]
    now,            \* value returned by time.monotonic()
    enabled,        \* _enabled(): SILICONFLOW_API_KEY is set
    threshold,      \* _rerank_cb_failure_threshold()
    max_attempts,   \* max(_rerank_max_attempts(), 1)
    call,           \* per caller: the rerank_async invocation in flight
    metrics_opened, \* counter "rerank_circuit::opened"
    calls,          \* rerank_async invocations started so far
    ev,             \* what the last step did (observation of the step)
    streak,         \* record_failure calls since the breaker was last closed with count 0
    became_open_at, \* clock value of the latest transition into open, -1 if none
    open_transitions \* number of transitions of the breaker into open

rerank_vars == <<circuit, now, enabled, threshold, max_attempts, call,
                 metrics_opened, calls, ev, streak, became_open_at,
                 open_transitions>>

----------------------------------------------------------------------------
(* Part II: the ingest job queue of src/pipelines/ingest_queue.py.         *)
(* The process can crash at any step: the record store and the job         *)
(* history are files and survive, everything else is memory of the         *)
(* process.  Request handlers that submit jobs and the worker thread are   *)
(* separate threads; every access to one of the two files is one step.     *)

\* jobs submitted in one behaviour
MaxJobs == 2
\* largest explicit max_attempts argument of enqueue_upload
MaxJobAttempts == 2
\* process crashes in one behaviour
MaxCrashes == 1
\* DEFAULT_MAX_ATTEMPTS with INGEST_JOB_MAX_ATTEMPTS unset
DEFAULT_MAX_ATTEMPTS == 3

\* threads that call start() / enqueue_upload()
Clients == {"h1", "h2"}
\* worker threads a process can come to hold
Workers == {"w1", "w2"}
JobIds == 1..MaxJobs

VARIABLES
    store,        \* ingest_queue.json: list of [job_id, attempts, max_attempts]
    job_history,  \* jobs.json, by job_id: [status, attempts, max_attempts]; "none" = no entry
    in_queue,     \* IngestJobQueue._queue: list of [job_id, attempts, max_attempts]
    restored,     \* IngestJobQueue._restored
    thread,       \* IngestJobQueue._thread: a worker, or "none"
    workers,      \* per worker thread: [pc, job]
    clients,      \* per client thread: [pc, op, arg, job]
    next_job,     \* next fresh job id (uuid4)
    crashes,      \* crashes so far
    fails,        \* per job: executions that ended in an exception
    oks,          \* per job: executions that returned
    accepted,     \* jobs whose record enqueue_upload has persisted
    interrupted,  \* accepted jobs that were neither succeeded nor failed at the last crash
    qev           \* what the last step did: [op, job, pre]

queue_vars == <<store, job_history, in_queue, restored, thread, workers, clients,
                next_job, crashes, fails, oks, accepted, interrupted, qev>>

----------------------------------------------------------------------------
(* Part III: the index manager of src/utils/index_manager.py.              *)
(* query() and rebuild() are called from request threads and from the      *)
(* ingest worker; the methods take no lock, so the steps of a rebuild      *)
(* interleave with the steps of other calls.                               *)

\* documents the storage can come to hold (each of zero or one chunk)
MaxDocuments == 2
\* query() / rebuild() calls in one behaviour
MaxIndexCalls == 3

\* threads that call query() / rebuild()
IndexThreads == {"r1", "r2"}

VARIABLES
    manager,      \* _INDEX_MANAGER: [index, document_count, chunk_count, last_build_at, errors]
    corpus,       \* processed storage: [docs, chunks] (manifest and chunk files)
    ithreads,     \* per thread: [pc, op, docs, records, msg]
    index_calls,  \* query() / rebuild() calls started so far
    builds,       \* rebuilds that reached the build timestamp (clock of last_build_at)
    last_good,    \* [document_count, chunk_count, last_build_at] after the last rebuild that returned
    iev           \* what the last step did: [op, t, pre, msg, result]

index_vars == <<manager, corpus, ithreads, index_calls, builds, last_good, iev>>

----------------------------------------------------------------------------
(* Part IV: the chunker of src/utils/chunking.py, a pure function of the   *)
(* document text and the two chunking parameters.  Positions are counted   *)
(* from 0 as in the source; a text is a sequence of characters.            *)

\* longest document text explored
MaxTextLen == 5
\* largest max_chars explored; 0 stands for every max_chars <= 0
MaxChars == 4
\* largest overlap explored; 0 stands for every overlap <= 0
MaxOverlap == 4

\* one letter, one character of _BOUNDARY_CHARS, and two whitespace characters of
\* which "\n" ends a line
Chars == {"a", ".", " ", "\n"}

VARIABLES
    text,         \* the text handed to simple_paragraph_chunk
    max_chars,    \* its max_chars
    overlap,      \* its overlap
    spans,        \* _segment_spans(text): sequence of [start, end, para]
    idx,          \* index of the segment the next passage starts at
    chunks,       \* the passages appended so far: [text, start_idx, end_idx, para, idx]
    chunk_pc      \* "entry", "loop" or "returned"

chunk_vars == <<text, max_chars, overlap, spans, idx, chunks, chunk_pc>>

----------------------------------------------------------------------------
(* Part V: the persistence steps of ingest_content (src/pipelines/ingest.py) *)
(* over the documents table and the chunk sets of src/utils/storage.py.     *)
(* ingest_content runs on the event loop thread (the /v1/ingest and the     *)
(* synchronous upload handlers) and on the queue's worker thread; neither   *)
(* it nor upsert_document and save_chunks takes a lock, so the reads and    *)
(* writes of two ingestions interleave.                                     *)

\* ingest_content calls in one behaviour
MaxIngests == 3

DocIds == {"d1", "d2"}
IngestThreads == {"worker", "caller"}

VARIABLES
    manifest,     \* documents table: doc_id -> [version, by]; version 0: no row;
                  \* by: the ingestion that wrote the row
    chunk_store,  \* chunk sets: doc_id -> the ingestion whose chunks are stored, 0: none
    ingesters,    \* per thread: [pc, doc, docs, version, ing]
    ingests,      \* ingest_content calls started so far
    ingev         \* what the last step did: [op, doc, before, after]

ingest_vars == <<manifest, chunk_store, ingesters, ingests, ingev>>

----------------------------------------------------------------------------
(* Part VI: the embedding boundary: embed_texts of src/utils/siliconflow.py *)
(* and the dense vectors of HybridIndex (src/utils/index.py).  A vector is  *)
(* represented by its dimension.                                            *)

\* len(_pseudo_embedding(text))
PSEUDO_DIM == 64
\* dimension of the vectors of the provider's embedding model
ModelDim == 1024
\* largest number of chunk texts of an index
MaxTexts == 2
\* HybridIndex constructions and queries in one behaviour
MaxEmbedCalls == 3

VARIABLES
    api_key,      \* _enabled(): SILICONFLOW_API_KEY is configured
    embeddings,   \* HybridIndex.embeddings: the dimensions of the stored vectors
    qv,           \* the dimension of the query vector of the last query, 0: none
    embed_calls,  \* constructions and queries so far
    embev         \* the last embed call: [op, n, responses, result]

embed_vars == <<api_key, embeddings, qv, embed_calls, embev>>

pipeline_vars == <<chunk_vars, ingest_vars, embed_vars>>

vars == <<rerank_vars, queue_vars, index_vars, pipeline_vars>>

\* the rerank path at rest
RerankIdle ==
    /\ circuit = [state |-> "closed", failure_count |-> 0, opened_at |-> 0]
    /\ now = 0
    /\ enabled = TRUE
    /\ threshold = 1
    /\ max_attempts = 1
    /\ call = [c \in Callers |-> [pc |-> "idle", n |-> 0, attempt |-> 0, posts |-> 0]]
    /\ metrics_opened = 0
    /\ calls = 0
    /\ ev = [caller |-> "none", op |-> "none",
             pre |-> [state |-> "closed", failure_count |-> 0, opened_at |-> 0],
             ret |-> FALSE, returned |-> "none", n |-> 0, scores |-> <<>>, posts |-> 0,
             err |-> [type |-> "none", status |-> 0], retried |-> FALSE]
    /\ streak = 0
    /\ became_open_at = 0 - 1
    /\ open_transitions = 0

\* a fresh process with empty files
QueueIdle ==
    /\ store = <<>>
    /\ job_history = [j \in JobIds |-> [status |-> "none", attempts |-> 0, max_attempts |-> 0]]
    /\ in_queue = <<>>
    /\ restored = FALSE
    /\ thread = "none"
    /\ workers = [w \in Workers |->
                      [pc |-> "dead", exc |-> "none",
                       job |-> [job_id |-> 0, attempts |-> 0, max_attempts |-> 0]]]
    /\ clients = [c \in Clients |->
                      [pc |-> "idle", op |-> "none", arg |-> 0,
                       job |-> [job_id |-> 0, attempts |-> 0, max_attempts |-> 0]]]
    /\ next_job = 1
    /\ crashes = 0
    /\ fails = [j \in JobIds |-> 0]
    /\ oks = [j \in JobIds |-> 0]
    /\ accepted = {}
    /\ interrupted = {}
    /\ qev = [op |-> "none", job |-> 0, pre |-> <<>>]

\* no call of the chunker
ChunkIdle ==
    /\ text = <<>>
    /\ max_chars = 0
    /\ overlap = 0
    /\ spans = <<>>
    /\ idx = 0
    /\ chunks = <<>>
    /\ chunk_pc = "returned"

\* empty storage, no ingestion in progress
IngestIdle ==
    /\ manifest = [d \in DocIds |-> [version |-> 0, by |-> 0]]
    /\ chunk_store = [d \in DocIds |-> 0]
    /\ ingesters = [t \in IngestThreads |->
                        [pc |-> "idle", doc |-> "none",
                         docs |-> [d \in DocIds |-> [version |-> 0, by |-> 0]],
                         version |-> 0, ing |-> 0]]
    /\ ingests = 0
    /\ ingev = [op |-> "none", doc |-> "none", before |-> 0, after |-> 0]

\* no index built, no embed call made
EmbedIdle ==
    /\ api_key = FALSE
    /\ embeddings = <<>>
    /\ qv = 0
    /\ embed_calls = 0
    /\ embev = [op |-> "none", n |-> 0, responses |-> <<>>, result |-> <<>>]

PipelineIdle == ChunkIdle /\ IngestIdle /\ EmbedIdle

\* IndexManager.__init__ over an empty storage
IndexIdle ==
    /\ manager = [index |-> [built |-> FALSE, chunks |-> 0], document_count |-> 0,
                  chunk_count |-> 0, last_build_at |-> 0, errors |-> <<>>]
    /\ corpus = [docs |-> 0, chunks |-> 0]
    /\ ithreads = [t \in IndexThreads |->
                       [pc |-> "idle", op |-> "none", docs |-> 0, records |-> 0, msg |-> "none"]]
    /\ index_calls = 0
    /\ builds = 0
    /\ last_good = [document_count |-> 0, chunk_count |-> 0, last_build_at |-> 0]
    /\ iev = [op |-> "none", t |-> "none", pre |-> [built |-> FALSE, chunks |-> 0],
              msg |-> "none", result |-> "none"]


----------------------------------------------------------------------------
(* _CircuitBreaker *)

CircuitInit == [state |-> "closed", failure_count |-> 0, opened_at |-> 0]

Max(a, b) == IF a >= b THEN a ELSE b
Min(a, b) == IF a <= b THEN a ELSE b

reset(cb) == CircuitInit

\* variant of should_skip: cooldown compared with > (sensitivity of C3)
should_skip_strict(cb, thr, reset_seconds, t) ==
    IF thr <= 0
    THEN [cb |-> IF cb.state # "closed" THEN reset(cb) ELSE cb, ret |-> FALSE]
    ELSE IF cb.state # "open"
    THEN [cb |-> cb, ret |-> FALSE]
    ELSE IF t - cb.opened_at > reset_seconds
    THEN [cb |-> [cb EXCEPT !.state = "half_open",
                            !.failure_count = Max(thr - 1, 0)],
          ret |-> FALSE]
    ELSE [cb |-> cb, ret |-> TRUE]

\* variant of should_skip: cooldown taken as over one tick early (sensitivity of C2)
should_skip_early(cb, thr, reset_seconds, t) ==
    IF thr <= 0
    THEN [cb |-> IF cb.state # "closed" THEN reset(cb) ELSE cb, ret |-> FALSE]
    ELSE IF cb.state # "open"
    THEN [cb |-> cb, ret |-> FALSE]
    ELSE IF t - cb.opened_at + 1 >= reset_seconds
    THEN [cb |-> [cb EXCEPT !.state = "half_open",
                            !.failure_count = Max(thr - 1, 0)],
          ret |-> FALSE]
    ELSE [cb |-> cb, ret |-> TRUE]

\* variant of should_skip: half_open starts with failure_count 0 (sensitivity of C4)
should_skip_fresh(cb, thr, reset_seconds, t) ==
    IF thr <= 0
    THEN [cb |-> IF cb.state # "closed" THEN reset(cb) ELSE cb, ret |-> FALSE]
    ELSE IF cb.state # "open"
    THEN [cb |-> cb, ret |-> FALSE]
    ELSE IF t - cb.opened_at >= reset_seconds
    THEN [cb |-> [cb EXCEPT !.state = "half_open", !.failure_count = 0],
          ret |-> FALSE]
    ELSE [cb |-> cb, ret |-> TRUE]

\* variant of should_skip: an open breaker never skips (sensitivity of C7)
should_skip_never(cb, thr, reset_seconds, t) ==
    IF thr <= 0
    THEN [cb |-> IF cb.state # "closed" THEN reset(cb) ELSE cb, ret |-> FALSE]
    ELSE IF cb.state # "open"
    THEN [cb |-> cb, ret |-> FALSE]
    ELSE IF t - cb.opened_at >= reset_seconds
    THEN [cb |-> [cb EXCEPT !.state = "half_open",
                            !.failure_count = Max(thr - 1, 0)],
          ret |-> FALSE]
    ELSE [cb |-> cb, ret |-> FALSE]

\* should_skip(threshold, reset_seconds); t is the value of self._monotonic()
should_skip(cb, thr, reset_seconds, t) ==
    IF thr <= 0
    THEN [cb |-> IF cb.state # "closed" THEN reset(cb) ELSE cb, ret |-> FALSE]
    ELSE IF cb.state # "open"
    THEN [cb |-> cb, ret |-> FALSE]
    ELSE IF t - cb.opened_at >= reset_seconds
    THEN [cb |-> [cb EXCEPT !.state = "half_open",
                            !.failure_count = Max(thr - 1, 0)],
          ret |-> FALSE]
    ELSE [cb |-> cb, ret |-> TRUE]

\* variant of record_failure: opens one failure late (sensitivity of C1)
record_failure_late(cb, thr, t) ==
    IF thr <= 0
    THEN [cb |-> cb, ret |-> FALSE]
    ELSE IF cb.state = "open"
    THEN [cb |-> [cb EXCEPT !.opened_at = t], ret |-> FALSE]
    ELSE LET n == Min(cb.failure_count + 1, thr + 1)
         IN  IF n > thr
             THEN [cb |-> [state |-> "open", failure_count |-> n, opened_at |-> t],
                   ret |-> TRUE]
             ELSE [cb |-> [cb EXCEPT !.state = "closed", !.failure_count = n],
                   ret |-> FALSE]

\* variant of record_failure: no early return on an open breaker (sensitivity of C6)
record_failure_reopen(cb, thr, t) ==
    IF thr <= 0
    THEN [cb |-> cb, ret |-> FALSE]
    ELSE LET n == Min(cb.failure_count + 1, thr)
         IN  IF n >= thr
             THEN [cb |-> [state |-> "open", failure_count |-> n, opened_at |-> t],
                   ret |-> TRUE]
             ELSE [cb |-> [cb EXCEPT !.state = "closed", !.failure_count = n],
                   ret |-> FALSE]

\* record_failure(threshold); t is the value of self._monotonic()
record_failure(cb, thr, t) ==
    IF thr <= 0
    THEN [cb |-> cb, ret |-> FALSE]
    ELSE IF cb.state = "open"
    THEN [cb |-> [cb EXCEPT !.opened_at = t], ret |-> FALSE]
    ELSE LET n == Min(cb.failure_count + 1, thr)
         IN  IF n >= thr
             THEN [cb |-> [state |-> "open", failure_count |-> n, opened_at |-> t],
                   ret |-> TRUE]
             ELSE [cb |-> [cb EXCEPT !.state = "closed", !.failure_count = n],
                   ret |-> FALSE]

\* variant of record_success: recovery reported from open only (sensitivity of C5)
record_success_open_only(cb) ==
    [cb |-> [state |-> "closed", failure_count |-> 0, opened_at |-> 0],
     ret |-> cb.state = "open"]

\* record_success()
record_success(cb) ==
    [cb |-> [state |-> "closed", failure_count |-> 0, opened_at |-> 0],
     ret |-> cb.state \in {"open", "half_open"}]

\* variant of _record_rerank_failure: records the failure once more, as if
\* every failed attempt were recorded (sensitivity of C29)
record_rerank_failure_twice(cb, thr, t) ==
    IF thr <= 0
    THEN [cb |-> cb, ret |-> FALSE, opened |-> 0]
    ELSE LET r1 == record_failure(cb, thr, t)
             r2 == record_failure(r1.cb, thr, t)
         IN  [cb |-> r2.cb, ret |-> r1.ret \/ r2.ret,
              opened |-> IF r1.ret \/ r2.ret THEN 1 ELSE 0]

\* _record_rerank_failure: the breaker after the call and the increment of
\* the counter "rerank_circuit::opened"
record_rerank_failure(cb, thr, t) ==
    IF thr <= 0
    THEN [cb |-> cb, ret |-> FALSE, opened |-> 0]
    ELSE LET r == record_failure(cb, thr, t)
         IN  [cb |-> r.cb, ret |-> r.ret, opened |-> IF r.ret THEN 1 ELSE 0]

----------------------------------------------------------------------------
(* rerank_async: responses, parsing and fallback *)

\* _fallback_scores(documents) for len(documents) = n:
\* [(idx, float(n - idx)) for idx in range(n)]
fallback_scores(n) == [i \in 1..n |-> <<i - 1, n - (i - 1)>>]

\* one element of the "data" array of a rerank response
Item(is_int, index, score_ok, score) ==
    [idx_is_int |-> is_int, index |-> index, score_ok |-> score_ok, score |-> score]

\* the loop over data in rerank_async: keep the items whose index is an int
\* within range(len(documents)); a score float() rejects counts as 0.0
parse_results(data, n) ==
    LET valid(item) == item.idx_is_int /\ 0 <= item.index /\ item.index < n
        sel == SelectSeq(data, valid)
    IN  [k \in 1..Len(sel) |->
            <<sel[k].index, IF sel[k].score_ok THEN sel[k].score ELSE 0>>]

\* sample bodies of an HTTP 200 response for n documents
FullData(n) == [i \in 1..n |-> Item(TRUE, n - i, TRUE, 10 + i)]
JunkData(n) == <<Item(FALSE, 0, TRUE, 5), Item(TRUE, n, TRUE, 5), Item(TRUE, 0 - 1, TRUE, 5)>>
PartialData(n) == <<Item(TRUE, n, TRUE, 7), Item(TRUE, 0, FALSE, 0)>>

\* what one awaited client.post can come back with
Outcomes(n) ==
    { [kind |-> k, status |-> 0, json_ok |-> FALSE, data |-> <<>>] :
        k \in {"ReadTimeout", "ConnectError"} }
    \cup
    { [kind |-> "response", status |-> s, json_ok |-> TRUE, data |-> <<>>] :
        s \in {400, 429, 500} }
    \cup
    { [kind |-> "response", status |-> 200, json_ok |-> FALSE, data |-> <<>>] }
    \cup
    { [kind |-> "response", status |-> 200, json_ok |-> TRUE, data |-> d] :
        d \in {<<>>, FullData(n), JunkData(n), PartialData(n)} }

NoError == [type |-> "none", status |-> 0]

\* the exception the body of "with attempt:" raises for an outcome:
\* client.post raises the transport error, raise_for_status raises
\* HTTPStatusError for a 4xx/5xx status, response.json() raises ValueError
exception_of(o) ==
    IF o.kind # "response" THEN [type |-> o.kind, status |-> 0]
    ELSE IF o.status >= 400 THEN [type |-> "HTTPStatusError", status |-> o.status]
    ELSE IF ~o.json_ok THEN [type |-> "ValueError", status |-> 0]
    ELSE NoError

\* AsyncRetrying(wait=..., stop=..., reraise=True) is given no retry=
\* argument: the library default retries on every Exception
retry_predicate(exc) == exc.type # "none"

\* variant of stop_after_attempt: stops one attempt late (sensitivity of C9)
stop_after_next_attempt(attempt_number, limit) == attempt_number > limit

\* stop=stop_after_attempt(max_attempts)
stop_after_attempt(attempt_number, limit) == attempt_number >= limit

\* variant of the handler: catches httpx errors only (sensitivity of C8)
except_httpx_only(exc) ==
    exc.type \in {"ReadTimeout", "ConnectError", "HTTPStatusError"}

\* "except Exception as exc": every exception type above derives from Exception
except_Exception(exc) ==
    exc.type \in {"ReadTimeout", "ConnectError", "HTTPStatusError", "ValueError"}

\* _should_retry_stream_http_status(status_code)
should_retry_stream_http_status(status_code) ==
    \/ status_code = 429
    \/ status_code \in {408, 409}
    \/ (500 <= status_code /\ status_code <= 599)

----------------------------------------------------------------------------
(* rerank_async: the state machine *)

\* no rerank_async invocation in flight for a caller
IdleCall == [pc |-> "idle", n |-> 0, attempt |-> 0, posts |-> 0]

\* the observation of one step: the breaker method it called (op, the breaker
\* before it, its return value) and the rerank_async return it made, if any
Ev(c, op, pre, ret, returned, n, scores, posts, err, retried) ==
    [caller |-> c, op |-> op, pre |-> pre, ret |-> ret, returned |-> returned,
     n |-> n, scores |-> scores, posts |-> posts, err |-> err, retried |-> retried]

EvNone == Ev("none", "none", CircuitInit, FALSE, "none", 0, <<>>, 0, NoError, FALSE)

RerankInit ==
    /\ circuit = CircuitInit
    /\ now = 0
    /\ enabled \in BOOLEAN
    /\ threshold \in 1..MaxThreshold
    /\ max_attempts \in 1..MaxAttemptsBound
    /\ call = [c \in Callers |-> IdleCall]
    /\ metrics_opened = 0
    /\ calls = 0
    /\ ev = EvNone
    /\ streak = 0
    /\ became_open_at = 0 - 1
    /\ open_transitions = 0
    /\ QueueIdle
    /\ IndexIdle
    /\ PipelineIdle

\* bookkeeping of the observers when the breaker goes from pre to post
Observe(pre, post) ==
    LET opens == pre.state # "open" /\ post.state = "open"
    IN  /\ became_open_at' = IF opens THEN now ELSE became_open_at
        /\ open_transitions' = open_transitions + (IF opens THEN 1 ELSE 0)

\* rerank_async from its entry to its first await (or to its early return)
RerankStart(c, n) ==
    /\ call[c].pc = "idle"
    /\ calls < MaxCalls
    /\ calls' = calls + 1
    /\ UNCHANGED <<now, enabled, threshold, max_attempts, metrics_opened, streak>>
    /\ IF n = 0
       THEN /\ ev' = Ev(c, "none", circuit, FALSE, "no_documents", n, <<>>, 0, NoError, FALSE)
            /\ UNCHANGED <<circuit, call, became_open_at, open_transitions>>
       ELSE IF ~enabled
       THEN /\ ev' = Ev(c, "none", circuit, FALSE, "disabled", n,
                        fallback_scores(n), 0, NoError, FALSE)
            /\ UNCHANGED <<circuit, call, became_open_at, open_transitions>>
       ELSE LET r == should_skip(circuit, threshold, ResetSeconds, now)
            IN  /\ circuit' = r.cb
                /\ Observe(circuit, r.cb)
                /\ IF r.ret
                   THEN /\ ev' = Ev(c, "should_skip", circuit, TRUE, "circuit_open", n,
                                    fallback_scores(n), 0, NoError, FALSE)
                        /\ UNCHANGED call
                   ELSE /\ ev' = Ev(c, "should_skip", circuit, FALSE, "none", n,
                                    <<>>, 0, NoError, FALSE)
                        /\ call' = [call EXCEPT ![c] =
                                      [pc |-> "post", n |-> n, attempt |-> 1, posts |-> 1]]

\* the awaited client.post of attempt call[c].attempt comes back with o:
\* the rest of the "with attempt:" body, the retry decision and the handlers
RerankResponse(c, o) ==
    /\ call[c].pc = "post"
    /\ UNCHANGED <<now, enabled, threshold, max_attempts, calls>>
    /\ LET n == call[c].n
           exc == exception_of(o)
           results == parse_results(o.data, n)
       IN  IF exc.type # "none"
           THEN IF retry_predicate(exc) /\ ~stop_after_attempt(call[c].attempt, max_attempts)
                THEN \* tenacity sleeps, then runs the next attempt
                     /\ call' = [call EXCEPT ![c].pc = "sleep"]
                     /\ ev' = Ev(c, "none", circuit, FALSE, "none", n, <<>>,
                                 call[c].posts, exc, TRUE)
                     /\ UNCHANGED <<circuit, metrics_opened, streak, became_open_at,
                                    open_transitions>>
                ELSE IF except_Exception(exc)
                THEN LET r == record_rerank_failure(circuit, threshold, now)
                     IN  /\ circuit' = r.cb
                         /\ metrics_opened' = metrics_opened + r.opened
                         /\ streak' = streak + 1
                         /\ Observe(circuit, r.cb)
                         /\ call' = [call EXCEPT ![c] = IdleCall]
                         /\ ev' = Ev(c, "record_failure", circuit, r.ret, "error", n,
                                     fallback_scores(n), call[c].posts, exc, FALSE)
                ELSE \* the exception leaves rerank_async
                     /\ call' = [call EXCEPT ![c] = IdleCall]
                     /\ ev' = Ev(c, "none", circuit, FALSE, "raised", n, <<>>,
                                 call[c].posts, exc, FALSE)
                     /\ UNCHANGED <<circuit, metrics_opened, streak, became_open_at,
                                    open_transitions>>
           ELSE IF results # <<>>
           THEN LET r == record_success(circuit)
                IN  /\ circuit' = r.cb
                    /\ streak' = 0
                    /\ Observe(circuit, r.cb)
                    /\ call' = [call EXCEPT ![c] = IdleCall]
                    /\ ev' = Ev(c, "record_success", circuit, r.ret, "results", n,
                                results, call[c].posts, NoError, FALSE)
                    /\ UNCHANGED metrics_opened
           ELSE LET r == record_rerank_failure(circuit, threshold, now)
                IN  /\ circuit' = r.cb
                    /\ metrics_opened' = metrics_opened + r.opened
                    /\ streak' = streak + 1
                    /\ Observe(circuit, r.cb)
                    /\ call' = [call EXCEPT ![c] = IdleCall]
                    /\ ev' = Ev(c, "record_failure", circuit, r.ret, "empty_response", n,
                                fallback_scores(n), call[c].posts, NoError, FALSE)

\* the backoff sleep ends: the loop body starts the next attempt and posts
RerankRetry(c) ==
    /\ call[c].pc = "sleep"
    /\ call' = [call EXCEPT ![c].pc = "post",
                            ![c].attempt = call[c].attempt + 1,
                            ![c].posts = call[c].posts + 1]
    /\ ev' = [EvNone EXCEPT !.caller = c]
    /\ UNCHANGED <<circuit, now, enabled, threshold, max_attempts, metrics_opened,
                   calls, streak, became_open_at, open_transitions>>

\* the monotonic clock advances
Tick ==
    /\ now < MaxTime
    /\ now' = now + 1
    /\ ev' = EvNone
    /\ UNCHANGED <<circuit, enabled, threshold, max_attempts, call, metrics_opened,
                   calls, streak, became_open_at, open_transitions>>

RerankNext ==
    \/ \E c \in Callers, n \in 0..MaxDocs : RerankStart(c, n)
    \/ \E c \in Callers : \E o \in Outcomes(call[c].n) : RerankResponse(c, o)
    \/ \E c \in Callers : RerankRetry(c)
    \/ Tick

SpecRerank == RerankInit /\ [][RerankNext /\ UNCHANGED <<queue_vars, index_vars, pipeline_vars>>]_vars

----------------------------------------------------------------------------
(* Properties of the circuit breaker *)

\* C1: starting from a closed breaker with failure_count 0 and a fixed
\* threshold T >= 1, right after the k-th consecutive record_failure (no
\* record_success in between) the breaker is open iff k >= T, and is closed
\* with failure_count k while k < T; record_success puts the breaker back to
\* closed with failure_count 0, so the count restarts.
C1_OpenIffThresholdFailures ==
    /\ ev.op = "record_failure" =>
          /\ (circuit.state = "open") <=> (streak >= threshold)
          /\ streak < threshold =>
                circuit.state = "closed" /\ circuit.failure_count = streak
    /\ ev.op = "record_success" =>
          streak = 0 /\ circuit.state = "closed" /\ circuit.failure_count = 0

C1_Witness ==
    /\ ev.op = "record_failure"
    /\ threshold = 2
    /\ streak = 2
    /\ ev.pre.state = "closed"
    /\ circuit.state = "open"

\* C2 as stated: once the breaker has become open at time t, every
\* should_skip() made before reset_seconds have elapsed since t returns true,
\* whatever the calls already in flight report afterwards.
C2_SkipsUntilCooldown ==
    (/\ ev.op = "should_skip"
     /\ became_open_at >= 0
     /\ now - became_open_at < ResetSeconds) => ev.ret

\* C2 amended: while the breaker opened at time t is still open, every
\* should_skip() made before reset_seconds have elapsed since t returns true
\* (a late record_failure only refreshes opened_at), and before that moment
\* the breaker leaves open only through a record_success.
C2_SkipsWhileStillOpen ==
    [][ /\ (/\ ev'.op = "should_skip"
            /\ circuit.state = "open"
            /\ now' - became_open_at < ResetSeconds) => ev'.ret
        /\ (/\ circuit.state = "open"
            /\ circuit'.state # "open"
            /\ now - became_open_at < ResetSeconds) => ev'.op = "record_success"
      ]_vars

C2_Witness ==
    /\ ev.op = "should_skip"
    /\ ev.pre.state = "open"
    /\ ev.pre.opened_at > became_open_at
    /\ now - became_open_at < ResetSeconds
    /\ ev.ret

\* C3: should_skip returns true iff the breaker is open and
\* now - opened_at < reset_seconds; open with the cooldown elapsed it returns
\* false and moves the breaker to half_open; closed or half_open it returns
\* false and leaves the breaker as it was.
C3_ShouldSkipContract ==
    ev.op = "should_skip" =>
        LET is_open == ev.pre.state = "open"
            elapsed == now - ev.pre.opened_at >= ResetSeconds
        IN  /\ ev.ret <=> (is_open /\ ~elapsed)
            /\ (is_open /\ elapsed) => (~ev.ret /\ circuit.state = "half_open")
            /\ ev.pre.state \in {"closed", "half_open"} =>
                  (~ev.ret /\ circuit = ev.pre)

C3_Witness ==
    /\ ev.op = "should_skip"
    /\ ev.pre.state = "open"
    /\ now - ev.pre.opened_at = ResetSeconds
    /\ circuit.state = "half_open"

\* C4: a record_failure made while the breaker is half_open opens it at
\* once, for every threshold: state open, opened_at the current time, return
\* value True.
C4_HalfOpenFailureReopens ==
    (ev.op = "record_failure" /\ ev.pre.state = "half_open") =>
        /\ circuit.state = "open"
        /\ circuit.opened_at = now
        /\ ev.ret

C4_Witness ==
    /\ ev.op = "record_failure"
    /\ ev.pre.state = "half_open"
    /\ threshold = 2
    /\ circuit.state = "open"

\* C5: record_success in any state leaves the breaker closed with
\* failure_count 0 and opened_at 0, and returns true iff the breaker was
\* open or half_open just before.
C5_RecordSuccessResets ==
    ev.op = "record_success" =>
        /\ circuit = [state |-> "closed", failure_count |-> 0, opened_at |-> 0]
        /\ ev.ret <=> (ev.pre.state \in {"open", "half_open"})

C5_Witness ==
    /\ ev.op = "record_success"
    /\ ev.pre.state = "half_open"
    /\ ev.ret
    /\ circuit.state = "closed"

\* C6: record_failure on an open breaker only refreshes opened_at (state
\* open, failure_count unchanged, return value False); record_failure returns
\* True exactly when it takes the breaker into open, and the counter
\* rerank_circuit::opened equals the number of transitions into open.
C6_FailureWhileOpenOnlyRefreshes ==
    /\ (ev.op = "record_failure" /\ ev.pre.state = "open") =>
          /\ circuit.state = "open"
          /\ circuit.failure_count = ev.pre.failure_count
          /\ circuit.opened_at = now
          /\ ~ev.ret
    /\ ev.op = "record_failure" =>
          (ev.ret <=> (ev.pre.state # "open" /\ circuit.state = "open"))
    /\ metrics_opened = open_transitions

C6_Witness ==
    /\ ev.op = "record_failure"
    /\ ev.pre.state = "open"
    /\ circuit.opened_at > ev.pre.opened_at
    /\ metrics_opened = 1

----------------------------------------------------------------------------
(* Properties of rerank_async *)

\* the rerank_async returns of calls that reached the provider
LetThrough == {"results", "empty_response", "error", "raised"}

\* the closed list of retryable conditions: timeouts, connection errors,
\* HTTP 408/409/429 and 5xx
ListedRetryable(exc) ==
    \/ exc.type \in {"ReadTimeout", "ConnectError"}
    \/ exc.type = "HTTPStatusError" /\ should_retry_stream_http_status(exc.status)

\* C7: a rerank_async call that finds the breaker open with the cooldown not
\* elapsed returns the fallback scores in the same step, has made no HTTP
\* post and has none in flight, and leaves the breaker exactly as it was.
C7_OpenBreakerSkipsNetwork ==
    (/\ ev.op = "should_skip"
     /\ ev.pre.state = "open"
     /\ now - ev.pre.opened_at < ResetSeconds) =>
        /\ ev.returned = "circuit_open"
        /\ ev.posts = 0
        /\ call[ev.caller] = IdleCall
        /\ ev.scores = [i \in 1..ev.n |-> <<i - 1, ev.n - (i - 1)>>]
        /\ circuit = ev.pre

C7_Witness ==
    /\ ev.returned = "circuit_open"
    /\ ev.pre.state = "open"
    /\ ev.n = 2
    /\ \E c \in Callers : call[c].pc = "post"

\* C8: no rerank_async call ends by raising; every call with n >= 1
\* documents that does not return provider results (provider disabled,
\* breaker open, exception or retries exhausted, response without a usable
\* item) returns [(i, n - i) : i = 0..n-1], strictly decreasing in input order.
C8_NeverRaisesFallsBack ==
    /\ ev.returned # "raised"
    /\ ev.returned \in {"disabled", "circuit_open", "empty_response", "error"} =>
          /\ ev.n >= 1
          /\ Len(ev.scores) = ev.n
          /\ \A i \in 1..ev.n : ev.scores[i] = <<i - 1, ev.n - (i - 1)>>
          /\ \A i, j \in 1..ev.n : i < j => ev.scores[i][2] > ev.scores[j][2]
    /\ (ev.err.type # "none" /\ ~ev.retried) => ev.returned = "error"
    /\ ev.returned = "results" => (ev.op = "record_success" /\ ev.scores # <<>>)

C8_Witness ==
    /\ ev.returned = "error"
    /\ ev.err.type = "ValueError"
    /\ ev.n = 2
    /\ ev.scores = <<<<0, 2>>, <<1, 1>>>>

\* C9: a call the breaker lets through makes at least 1 and at most
\* max_attempts HTTP posts; a success ends the call; a failure of attempt
\* number max_attempts ends it with the fallback; with max_attempts = 1 a
\* failing call posts exactly once.
C9_AttemptsBounded ==
    /\ \A c \in Callers :
          call[c].pc # "idle" =>
              /\ 1 <= call[c].posts
              /\ call[c].posts <= max_attempts
              /\ call[c].posts = call[c].attempt
    /\ ev.returned \in LetThrough =>
          /\ 1 <= ev.posts
          /\ ev.posts <= max_attempts
          /\ call[ev.caller] = IdleCall
    /\ (ev.err.type # "none" /\ ev.posts = max_attempts) =>
          /\ ~ev.retried
          /\ ev.returned = "error"
          /\ ev.scores = [i \in 1..ev.n |-> <<i - 1, ev.n - (i - 1)>>]
    /\ (ev.returned = "error" /\ max_attempts = 1) => ev.posts = 1

C9_Witness ==
    /\ ev.returned = "error"
    /\ max_attempts = 2
    /\ ev.posts = 2
    /\ ev.err.type = "ConnectError"

\* C10: only the listed retryable conditions are retried: an attempt that
\* fails with any other error (HTTP 400, a body that is not JSON) is not
\* followed by another attempt.
C10_OnlyListedErrorsRetried ==
    ev.retried => ListedRetryable(ev.err)

\* the step that ends the invocation of caller c (its last post came back)
Returns(c) == call[c].pc = "post" /\ call'[c].pc = "idle"

\* a step of the invocation of caller c that does not end it: a failed
\* attempt that will be retried, or the start of the next attempt
Continues(c) ==
    /\ call[c].pc \in {"post", "sleep"}
    /\ call'[c].pc \in {"post", "sleep"}
    /\ call'[c] # call[c]

\* C29: an invocation the breaker let through changes the breaker only in
\* the step that ends it, and there by exactly one record_failure or one
\* record_success; its failed attempts that are retried and the starts of
\* its later attempts leave the breaker alone, so an invocation that ends in
\* the fallback adds 1 to the failure count of a breaker that is not open
\* (and nothing to an open one), however many posts it made.
C29_OneRecordPerCall ==
    [][\A c \in Callers :
          /\ Continues(c) => circuit' = circuit
          /\ Returns(c) =>
                /\ circuit' \in {record_failure(circuit, threshold, now).cb,
                                 record_success(circuit).cb}
                /\ ev'.op \in {"record_failure", "record_success"}
                /\ ev'.op = "record_failure" =>
                      /\ circuit' = record_failure(circuit, threshold, now).cb
                      /\ circuit'.failure_count =
                            IF circuit.state = "open"
                            THEN circuit.failure_count
                            ELSE circuit.failure_count + 1
                /\ ev'.op = "record_success" => circuit' = record_success(circuit).cb
      ]_vars

C29_Witness ==
    /\ ev.op = "record_failure"
    /\ ev.returned = "error"
    /\ max_attempts = 2
    /\ ev.posts = 2
    /\ threshold = 2
    /\ ev.pre.state = "closed"
    /\ ev.pre.failure_count = 0
    /\ circuit.state = "closed"
    /\ circuit.failure_count = 1


----------------------------------------------------------------------------
(* The ingest job queue: files, job records, and the steps of the threads. *)

\* UploadIngestJob / _job_record: the fields the queue logic reads
JobRecord(job_id, attempts, maxatt) ==
    [job_id |-> job_id, attempts |-> attempts, max_attempts |-> maxatt]

RECURSIVE first_match(_, _, _)
\* index of the first record of job_id at or after position i, 0 if none
first_match(records, job_id, i) ==
    IF i > Len(records) THEN 0
    ELSE IF records[i].job_id = job_id THEN i
    ELSE first_match(records, job_id, i + 1)

\* _persist_job: replace the first record of the job, else append
persist_job(records, job) ==
    LET i == first_match(records, job.job_id, 1)
    IN  IF i = 0 THEN Append(records, job) ELSE [records EXCEPT ![i] = job]

\* _remove_persisted_job: drop every record of the job
remove_persisted_job(records, job_id) ==
    SelectSeq(records, LAMBDA r : r.job_id # job_id)

\* variant of hydrate_job: a restored job starts counting again (sensitivity of C18)
hydrate_job_reset(r) ==
    [job_id |-> r.job_id, attempts |-> 0,
     max_attempts |-> IF r.max_attempts < 1 THEN DEFAULT_MAX_ATTEMPTS ELSE r.max_attempts]

\* _hydrate_job on a record the queue wrote
hydrate_job(r) ==
    [job_id |-> r.job_id,
     attempts |-> IF r.attempts < 0 THEN 0 ELSE r.attempts,
     max_attempts |-> IF r.max_attempts < 1 THEN DEFAULT_MAX_ATTEMPTS ELSE r.max_attempts]

\* append_job_history: a new entry for the job
append_job_history(h, job_id, status, attempts, maxatt) ==
    [h EXCEPT ![job_id] = [status |-> status, attempts |-> attempts, max_attempts |-> maxatt]]

\* an update that does not name "attempts"
Keep == 0 - 1

\* variant of update_job_history: the entry is never found, nothing is written (sensitivity of C17)
update_job_history_lost(h, job_id, status, attempts) == h

\* update_job_history: changes the named fields of the job's entry, if there is one
update_job_history(h, job_id, status, attempts) ==
    IF h[job_id].status = "none" THEN h
    ELSE [h EXCEPT ![job_id].status = status,
                   ![job_id].attempts = IF attempts = Keep THEN @ ELSE attempts]

\* variant of restore_exhausted: gives up a job that has one attempt left (sensitivity of C13)
restore_exhausted_early(job) == job.attempts + 1 >= job.max_attempts

\* variant of restore_exhausted: an exhausted record is queued once more (sensitivity of C12)
restore_exhausted_requeue(job) == FALSE

\* _restore_pending_jobs, line 389: the record has used up its attempts
restore_exhausted(job) == job.attempts >= job.max_attempts

RECURSIVE restore_pending_jobs(_, _, _, _, _)
\* _restore_pending_jobs over the records read at its start, from position i
restore_pending_jobs(records, i, st, h, q) ==
    IF i > Len(records) THEN [store |-> st, history |-> h, queue |-> q]
    ELSE LET job == hydrate_job(records[i])
         IN  IF restore_exhausted(job)
             THEN restore_pending_jobs(records, i + 1,
                      remove_persisted_job(st, job.job_id),
                      update_job_history(h, job.job_id, "failed", job.attempts), q)
             ELSE restore_pending_jobs(records, i + 1, st,
                      update_job_history(h, job.job_id, "queued", job.attempts),
                      Append(q, job))

\* variant of attempts_left: one execution more than max_attempts (sensitivity of C11)
attempts_left_one_more(job) == job.attempts <= job.max_attempts

\* _run_job, line 337: may the job be tried again
attempts_left(job) == job.attempts < job.max_attempts

NoJob == JobRecord(0, 0, 0)
IdleClient == [pc |-> "idle", op |-> "none", arg |-> 0, job |-> NoJob]
DeadWorker == [pc |-> "dead", exc |-> "none", job |-> NoJob]
IdleWorker == [pc |-> "idle", exc |-> "none", job |-> NoJob]

\* what ingest_upload_payload can raise: the HTTPException of lines 72-84
\* (upload not found, not eligible, expired, file missing on disk), or any
\* other exception of the extraction, the ingestion or the index rebuild
Raised == {"HTTPException", "Exception"}

QEv(op, job, pre) == [op |-> op, job |-> job, pre |-> pre]

\* records of job j in the store, jobs of id j in the queue
RecordsOf(j) == SelectSeq(store, LAMBDA r : r.job_id = j)
QueuedOf(j) == SelectSeq(in_queue, LAMBDA r : r.job_id = j)
HasRecord(j) == Len(RecordsOf(j)) > 0
InQueue(j) == Len(QueuedOf(j)) > 0
HeldBy(w, j) == workers[w].pc # "dead" /\ workers[w].pc # "idle" /\ workers[w].job.job_id = j

QueueInit == RerankIdle /\ QueueIdle /\ IndexIdle /\ PipelineIdle

\* what a step leaves alone among the bookkeeping of executions
NoExecution == UNCHANGED <<fails, oks>>

\* a request thread enters start() or enqueue_upload(max_attempts = arg); arg 0 is None
ClientCall(c, op, arg) ==
    /\ clients[c].pc = "idle"
    /\ op = "enqueue" => next_job <= MaxJobs
    /\ op = "start" => arg = 0
    /\ clients' = [clients EXCEPT ![c] = [pc |-> "check_restored", op |-> op, arg |-> arg, job |-> NoJob]]
    /\ qev' = QEv("call", 0, <<>>)
    /\ UNCHANGED <<store, job_history, in_queue, restored, thread, workers, next_job, crashes, interrupted, accepted>>
    /\ NoExecution

\* start(), line 246: if not self._restored
StartCheckRestored(c) ==
    /\ clients[c].pc = "check_restored"
    /\ clients' = [clients EXCEPT ![c].pc = IF restored THEN "check_thread" ELSE "restore"]
    /\ qev' = QEv("check_restored", 0, <<>>)
    /\ UNCHANGED <<store, job_history, in_queue, restored, thread, workers, next_job, crashes, interrupted, accepted>>
    /\ NoExecution

\* start(), lines 247-248: _restore_pending_jobs(); self._restored = True
StartRestore(c) ==
    /\ clients[c].pc = "restore"
    /\ LET r == restore_pending_jobs(store, 1, store, job_history, in_queue)
       IN  /\ store' = r.store
           /\ job_history' = r.history
           /\ in_queue' = r.queue
    /\ restored' = TRUE
    /\ clients' = [clients EXCEPT ![c].pc = "check_thread"]
    /\ qev' = QEv("restore", 0, store)
    /\ UNCHANGED <<thread, workers, next_job, crashes, interrupted, accepted>>
    /\ NoExecution

\* the rest of the call after start() has returned
AfterStart(c) ==
    IF clients[c].op = "start" THEN IdleClient ELSE [clients[c] EXCEPT !.pc = "history"]

\* start(), lines 249-250: if self._thread and self._thread.is_alive(): return
StartCheckThread(c) ==
    /\ clients[c].pc = "check_thread"
    /\ clients' = [clients EXCEPT ![c] =
           IF thread # "none" /\ workers[thread].pc # "dead"
           THEN AfterStart(c) ELSE [clients[c] EXCEPT !.pc = "spawn"]]
    /\ qev' = QEv("check_thread", 0, <<>>)
    /\ UNCHANGED <<store, job_history, in_queue, restored, thread, workers, next_job, crashes, interrupted, accepted>>
    /\ NoExecution

\* start(), lines 251-252: a new worker thread is created and started
StartSpawn(c) ==
    /\ clients[c].pc = "spawn"
    /\ LET w == IF workers["w1"].pc = "dead" THEN "w1" ELSE "w2"
       IN  /\ workers[w].pc = "dead"
           /\ workers' = [workers EXCEPT ![w] = IdleWorker]
           /\ thread' = w
    /\ clients' = [clients EXCEPT ![c] = AfterStart(c)]
    /\ qev' = QEv("spawn", 0, <<>>)
    /\ UNCHANGED <<store, job_history, in_queue, restored, next_job, crashes, interrupted, accepted>>
    /\ NoExecution

\* enqueue_upload, lines 263-281: fresh id, max_attempts or default, history entry "queued"
EnqueueHistory(c) ==
    /\ clients[c].pc = "history"
    /\ next_job <= MaxJobs
    /\ LET maxatt == IF clients[c].arg = 0 THEN DEFAULT_MAX_ATTEMPTS ELSE clients[c].arg
       IN  /\ job_history' = append_job_history(job_history, next_job, "queued", 0, maxatt)
           /\ clients' = [clients EXCEPT ![c].pc = "persist",
                                         ![c].job = JobRecord(next_job, 0, maxatt)]
    /\ next_job' = next_job + 1
    /\ qev' = QEv("history_queued", next_job, <<>>)
    /\ UNCHANGED <<store, in_queue, restored, thread, workers, crashes, interrupted, accepted>>
    /\ NoExecution

\* enqueue_upload, line 292: _persist_job(job)
EnqueuePersist(c) ==
    /\ clients[c].pc = "persist"
    /\ store' = persist_job(store, clients[c].job)
    /\ accepted' = accepted \cup {clients[c].job.job_id}
    /\ clients' = [clients EXCEPT ![c].pc = "put"]
    /\ qev' = QEv("persist", clients[c].job.job_id, store)
    /\ UNCHANGED <<job_history, in_queue, restored, thread, workers, next_job, crashes, interrupted>>
    /\ NoExecution

\* enqueue_upload, lines 293-301: self._queue.put(job); return
EnqueuePut(c) ==
    /\ clients[c].pc = "put"
    /\ in_queue' = Append(in_queue, clients[c].job)
    /\ clients' = [clients EXCEPT ![c] = IdleClient]
    /\ qev' = QEv("put", clients[c].job.job_id, <<>>)
    /\ UNCHANGED <<store, job_history, restored, thread, workers, next_job, crashes, interrupted, accepted>>
    /\ NoExecution

\* _worker line 306 and _run_job line 316: take the head of the queue, mark it running
WorkerGet(w) ==
    /\ workers[w].pc = "idle"
    /\ Len(in_queue) > 0
    /\ LET job == Head(in_queue)
       IN  /\ workers' = [workers EXCEPT ![w] = [pc |-> "run", exc |-> "none", job |-> job]]
           /\ job_history' = update_job_history(job_history, job.job_id, "running", Keep)
           /\ qev' = QEv("get", job.job_id, <<>>)
    /\ in_queue' = Tail(in_queue)
    /\ UNCHANGED <<store, restored, thread, clients, next_job, crashes, interrupted, accepted>>
    /\ NoExecution

\* _run_job lines 318, 360-369: the ingestion returns, the job is marked succeeded
WorkerSucceed(w) ==
    /\ workers[w].pc = "run"
    /\ LET job == workers[w].job
       IN  /\ job_history' = update_job_history(job_history, job.job_id, "succeeded", Keep)
           /\ oks' = [oks EXCEPT ![job.job_id] = 1]
           /\ qev' = QEv("succeeded", job.job_id, <<>>)
    /\ workers' = [workers EXCEPT ![w].pc = "succeeded"]
    /\ UNCHANGED <<store, in_queue, restored, thread, clients, next_job, crashes, interrupted, accepted, fails>>

\* _run_job line 370: the record of a succeeded job is removed
WorkerRemoveSucceeded(w) ==
    /\ workers[w].pc = "succeeded"
    /\ store' = remove_persisted_job(store, workers[w].job.job_id)
    /\ workers' = [workers EXCEPT ![w] = IdleWorker]
    /\ qev' = QEv("remove_succeeded", workers[w].job.job_id, store)
    /\ UNCHANGED <<job_history, in_queue, restored, thread, clients, next_job, crashes, interrupted, accepted>>
    /\ NoExecution

\* _run_job lines 318-321: the ingestion raises; attempts += 1; _persist_job(job)
WorkerFail(w, exc) ==
    /\ workers[w].pc = "run"
    /\ LET job == [workers[w].job EXCEPT !.attempts = @ + 1]
       IN  /\ workers' = [workers EXCEPT ![w] = [pc |-> "raised", exc |-> exc, job |-> job]]
           /\ store' = persist_job(store, job)
           /\ fails' = [fails EXCEPT ![job.job_id] = @ + 1]
           /\ qev' = QEv("fail", job.job_id, store)
    /\ UNCHANGED <<job_history, in_queue, restored, thread, clients, next_job, crashes, interrupted, accepted, oks>>

\* _run_job lines 326-334 and 345-355: mark the job retrying, or failed
WorkerMark(w) ==
    /\ workers[w].pc = "raised"
    /\ LET job == workers[w].job
       IN  IF attempts_left(job)
           THEN /\ job_history' = update_job_history(job_history, job.job_id, "retrying", job.attempts)
                /\ workers' = [workers EXCEPT ![w].pc = "sleep"]
                /\ qev' = QEv("retrying", job.job_id, <<>>)
           ELSE /\ job_history' = update_job_history(job_history, job.job_id, "failed", job.attempts)
                /\ workers' = [workers EXCEPT ![w].pc = "failed"]
                /\ qev' = QEv("failed", job.job_id, <<>>)
    /\ UNCHANGED <<store, in_queue, restored, thread, clients, next_job, crashes, interrupted, accepted>>
    /\ NoExecution

\* _run_job lines 343-344: after the backoff sleep the job is put on the queue again
WorkerRequeue(w) ==
    /\ workers[w].pc = "sleep"
    /\ in_queue' = Append(in_queue, workers[w].job)
    /\ workers' = [workers EXCEPT ![w] = IdleWorker]
    /\ qev' = QEv("requeue", workers[w].job.job_id, <<>>)
    /\ UNCHANGED <<store, job_history, restored, thread, clients, next_job, crashes, interrupted, accepted>>
    /\ NoExecution

\* _run_job line 356: the record of a failed job is removed
WorkerRemoveFailed(w) ==
    /\ workers[w].pc = "failed"
    /\ store' = remove_persisted_job(store, workers[w].job.job_id)
    /\ workers' = [workers EXCEPT ![w] = IdleWorker]
    /\ qev' = QEv("remove_failed", workers[w].job.job_id, store)
    /\ UNCHANGED <<job_history, in_queue, restored, thread, clients, next_job, crashes, interrupted, accepted>>
    /\ NoExecution

\* the process dies and a new one starts: the memory is lost, the two files stay
Crash ==
    /\ crashes < MaxCrashes
    /\ crashes' = crashes + 1
    /\ in_queue' = <<>>
    /\ restored' = FALSE
    /\ thread' = "none"
    /\ workers' = [w \in Workers |-> DeadWorker]
    /\ clients' = [c \in Clients |-> IdleClient]
    /\ interrupted' = {j \in accepted : job_history[j].status \notin {"succeeded", "failed"}}
    /\ qev' = QEv("crash", 0, store)
    /\ UNCHANGED <<store, job_history, next_job, accepted>>
    /\ NoExecution

ClientStep(c) ==
    \/ \E op \in {"start", "enqueue"}, arg \in 0..MaxJobAttempts : ClientCall(c, op, arg)
    \/ StartCheckRestored(c)
    \/ StartRestore(c)
    \/ StartCheckThread(c)
    \/ StartSpawn(c)
    \/ EnqueueHistory(c)
    \/ EnqueuePersist(c)
    \/ EnqueuePut(c)

WorkerStep(w) ==
    \/ WorkerGet(w)
    \/ WorkerSucceed(w)
    \/ WorkerRemoveSucceeded(w)
    \/ \E exc \in Raised : WorkerFail(w, exc)
    \/ WorkerMark(w)
    \/ WorkerRequeue(w)
    \/ WorkerRemoveFailed(w)

\* the request handlers of the application run on one event loop: one client thread
QueueNext ==
    /\ \/ ClientStep("h1")
       \/ \E w \in Workers : WorkerStep(w)
       \/ Crash
    /\ UNCHANGED <<rerank_vars, index_vars, pipeline_vars>>

\* jobs and crashes in a behaviour with two request threads
RaceJobs == 1
RaceCrashes == 1

\* enqueue_upload and start are also called from two threads at once; the callers
\* pass no max_attempts, as the application's handlers do
QueueRaceNext ==
    /\ \/ \E c \in Clients : ClientStep(c)
       \/ \E w \in Workers : WorkerStep(w)
       \/ Crash
    /\ next_job' <= RaceJobs + 1
    /\ crashes' <= RaceCrashes
    /\ \A c \in Clients : clients'[c].arg = 0
    /\ UNCHANGED <<rerank_vars, index_vars, pipeline_vars>>

SpecQueue == QueueInit /\ [][QueueNext]_vars

SpecQueueRace == QueueInit /\ [][QueueRaceNext]_vars

\* jobs and crashes in a behaviour checked for progress
LiveJobs == 1
LiveCrashes == 1

\* the application's handlers pass no max_attempts: every job has the default budget
LiveClient ==
    /\ ClientStep("h1")
    /\ next_job' <= LiveJobs + 1
    /\ clients'["h1"].arg = 0
    /\ UNCHANGED <<rerank_vars, index_vars, pipeline_vars>>

LiveWorker(w) ==
    /\ WorkerStep(w)
    /\ UNCHANGED <<rerank_vars, index_vars, pipeline_vars>>

LiveCrash ==
    /\ Crash
    /\ crashes' <= LiveCrashes
    /\ UNCHANGED <<rerank_vars, index_vars, pipeline_vars>>

QueueLiveNext ==
    \/ LiveClient
    \/ \E w \in Workers : LiveWorker(w)
    \/ LiveCrash

\* the worker thread is scheduled as long as it lives, and requests keep arriving
\* (each one calls start()); crashes are not forced
SpecQueueLive ==
    /\ QueueInit
    /\ [][QueueLiveNext]_vars
    /\ WF_vars(LiveClient)
    /\ \A w \in Workers : WF_vars(LiveWorker(w))

----------------------------------------------------------------------------
(* Claims about the ingest job queue.                                      *)

StatusOf(j) == job_history[j].status
BudgetOf(j) == job_history[j].max_attempts
Terminal(j) == StatusOf(j) \in {"succeeded", "failed"}

Executing(j) == \E w \in Workers : workers[w].pc = "run" /\ workers[w].job.job_id = j
AttemptsLeft(j) == \E k \in 1..Len(store) :
    store[k].job_id = j /\ store[k].attempts < store[k].max_attempts

\* C13 as stated, in a form a finite run refutes: a job can only be executed from the
\* in-memory queue, so recovery must have put every accepted job that was neither
\* succeeded nor failed at the crash back on the queue.
C13_InterruptedJobsRequeued ==
    qev.op = "restore" => \A j \in interrupted : InQueue(j)

\* C13: a job that enqueue accepted, that was neither succeeded nor failed when the
\* process crashed, and whose stored attempts are below max_attempts, is eventually
\* executed again.
C13_EventuallyExecutedAgain ==
    \A j \in JobIds :
        (qev.op = "crash" /\ j \in interrupted /\ AttemptsLeft(j)) ~> Executing(j)

\* a job interrupted by the crash, with failures behind it, is in execution again
C13_Witness ==
    \E j \in JobIds :
        /\ j \in interrupted
        /\ Executing(j)
        /\ qev.op = "get"
        /\ fails[j] >= 1

LiveWorkers == {w \in Workers : workers[w].pc # "dead"}

\* C14: at most one worker thread is alive, at most one job is in execution, and no
\* job is on the in-memory queue twice (recovery has put it there at most once).
C14_OneWorkerOneRestore ==
    /\ Cardinality(LiveWorkers) <= 1
    /\ Cardinality({w \in Workers : workers[w].pc = "run"}) <= 1
    /\ \A j \in JobIds : Len(QueuedOf(j)) <= 1

\* the worker has written the final status of j and is about to remove its record
PendingRemoval(j) ==
    \E w \in Workers : workers[w].pc \in {"succeeded", "failed"} /\ workers[w].job.job_id = j

\* C15: the store never holds two records of a job; it holds the record of every
\* accepted job that is not succeeded or failed; and once recovery has run and no
\* removal is pending it holds no record of a job that is succeeded or failed.
C15_ExactlyOneRecord ==
    \A j \in JobIds :
        /\ Len(RecordsOf(j)) <= 1
        /\ (j \in accepted /\ ~Terminal(j)) => HasRecord(j)
        /\ (Terminal(j) /\ restored /\ ~PendingRemoval(j)) => ~HasRecord(j)

\* the edges of the recorded lifecycle, and the first entry of a job
LifecycleEdges ==
    {<<"none", "queued">>, <<"queued", "running">>, <<"running", "succeeded">>,
     <<"running", "retrying">>, <<"retrying", "queued">>, <<"running", "failed">>}

\* C16: every change of a job's recorded status follows one of the edges
\* queued -> running, running -> succeeded, running -> retrying, retrying -> queued,
\* running -> failed (the first entry is queued); succeeded and failed are never left.
C16_StatusFollowsLifecycle ==
    [][\A j \in JobIds :
          job_history'[j].status # job_history[j].status =>
              <<job_history[j].status, job_history'[j].status>> \in LifecycleEdges]_vars


\* the job is waiting, in execution, in backoff, or about to be put on the queue
InProcess(j) ==
    \/ InQueue(j)
    \/ \E w \in Workers : HeldBy(w, j)
    \/ \E c \in Clients : clients[c].pc = "put" /\ clients[c].job.job_id = j

\* the records recovery or the worker has just removed
Dropped == {qev.pre[i].job_id : i \in {k \in 1..Len(qev.pre) : ~HasRecord(qev.pre[k].job_id)}}

\* C17, safety: a step that removes the record of a job leaves the job with the
\* status succeeded or failed; an accepted job whose status is queued, running or
\* retrying still has its record, and once recovery has run it is on the queue or
\* in the hands of the worker.
C17_NoSilentEndInv ==
    /\ \A j \in Dropped : Terminal(j)
    /\ \A j \in accepted :
           ~Terminal(j) => HasRecord(j) /\ (restored => InProcess(j))

C18_AttemptsCountFailures ==
    /\ \A k \in 1..Len(store) : store[k].attempts = fails[store[k].job_id]
    /\ \A k \in 1..Len(in_queue) :
           /\ in_queue[k].attempts = fails[in_queue[k].job_id]
           /\ in_queue[k].max_attempts = BudgetOf(in_queue[k].job_id)
    /\ \A w \in Workers :
           /\ workers[w].pc = "run" => workers[w].job.attempts = fails[workers[w].job.job_id]
           /\ workers[w].pc \in {"raised", "sleep", "failed"} =>
                  \E k \in 1..Len(store) : store[k] = workers[w].job

\* recovery has put a job with failures behind it back on the queue
C18_Witness ==
    /\ qev.op = "restore"
    /\ crashes >= 1
    /\ \E k \in 1..Len(in_queue) :
           /\ in_queue[k].attempts >= 1
           /\ in_queue[k].attempts = fails[in_queue[k].job_id]

\* C27: a job whose execution raised the HTTPException of a permanent input
\* error (upload not found, not eligible, expired, file missing on disk) is
\* marked failed after that one execution: it is never marked retrying, never
\* in the backoff sleep and never put on the queue again.
C27_PermanentErrorFailsAtOnce ==
    \A w \in Workers :
        (workers[w].exc = "HTTPException" /\ workers[w].pc # "raised") =>
            /\ workers[w].pc = "failed"
            /\ StatusOf(workers[w].job.job_id) = "failed"

----------------------------------------------------------------------------
(* The index manager: one in-memory index over the chunks in storage.      *)

\* self._index is None
NoIndex == [built |-> FALSE, chunks |-> 0]
\* FaissIndex(chunk_records) / HybridIndex(chunk_records) over n records
Index(n) == [built |-> TRUE, chunks |-> n]

IdleThread == [pc |-> "idle", op |-> "none", docs |-> 0, records |-> 0, msg |-> "none"]

IEv(op, t, pre, msg, result) == [op |-> op, t |-> t, pre |-> pre, msg |-> msg, result |-> result]

\* variant of rebuild_except: the index in place is kept (sensitivity of C19)
rebuild_except_stale(m, msg) ==
    [m EXCEPT !.errors = Append(@, msg)]

\* rebuild, lines 95-97: self._index = None; self.errors.append(str(exc))
rebuild_except(m, msg) ==
    [m EXCEPT !.index = NoIndex, !.errors = Append(@, msg)]

\* health(): the error list a caller sees
health_errors(m) == {m.errors[i] : i \in 1..Len(m.errors)}

\* the steps of rebuild() a thread can be in
RebuildPcs == {"ensure", "load", "build", "stats", "except"}

\* ingestion writes a document of k chunks into the processed storage
IngestDocument(k) ==
    /\ corpus.docs < MaxDocuments
    /\ corpus' = [docs |-> corpus.docs + 1, chunks |-> corpus.chunks + k]
    /\ iev' = IEv("ingest", "none", manager.index, "none", "none")
    /\ UNCHANGED <<manager, ithreads, index_calls, builds, last_good>>

\* a thread calls query() or rebuild()
IndexCall(t, op) ==
    /\ ithreads[t].pc = "idle"
    /\ index_calls < MaxIndexCalls
    /\ index_calls' = index_calls + 1
    /\ ithreads' = [ithreads EXCEPT ![t] =
           [IdleThread EXCEPT !.op = op, !.pc = IF op = "query" THEN "check" ELSE "ensure"]]
    /\ iev' = IEv("call", t, manager.index, "none", "none")
    /\ UNCHANGED <<manager, corpus, builds, last_good>>

\* query, lines 102-103: if self._index is None: self.rebuild()
QueryCheck(t) ==
    /\ ithreads[t].pc = "check"
    /\ ithreads' = [ithreads EXCEPT ![t].pc =
           IF manager.index = NoIndex THEN "ensure" ELSE "recheck"]
    /\ iev' = IEv("check", t, manager.index, "none", "none")
    /\ UNCHANGED <<manager, corpus, index_calls, builds, last_good>>

\* rebuild, lines 44-48: ensure_dirs() outside the try, then self.errors.clear()
RebuildEnsure(t, ok) ==
    /\ ithreads[t].pc = "ensure"
    /\ IF ok
       THEN /\ manager' = [manager EXCEPT !.errors = <<>>]
            /\ ithreads' = [ithreads EXCEPT ![t].pc = "load"]
            /\ iev' = IEv("ensure", t, manager.index, "none", "none")
       ELSE /\ manager' = manager
            /\ ithreads' = [ithreads EXCEPT ![t] = IdleThread]
            /\ iev' = IEv("rebuild_raised", t, manager.index, "ensure_dirs", "raised")
    /\ UNCHANGED <<corpus, index_calls, builds, last_good>>

\* rebuild, lines 51-62: the manifest and the chunks of every document are read
RebuildLoad(t, ok) ==
    /\ ithreads[t].pc = "load"
    /\ ithreads' = [ithreads EXCEPT ![t] =
           IF ok THEN [@ EXCEPT !.pc = "build", !.docs = corpus.docs, !.records = corpus.chunks]
           ELSE [@ EXCEPT !.pc = "except", !.msg = "load"]]
    /\ iev' = IEv("load", t, manager.index, "none", "none")
    /\ UNCHANGED <<manager, corpus, index_calls, builds, last_good>>

\* rebuild, lines 64-73: a new index over the records, or None when there are none
RebuildBuild(t, ok) ==
    /\ ithreads[t].pc = "build"
    /\ ok \/ ithreads[t].records > 0
    /\ IF ok
       THEN /\ manager' = [manager EXCEPT !.index =
                   IF ithreads[t].records > 0 THEN Index(ithreads[t].records) ELSE NoIndex]
            /\ ithreads' = [ithreads EXCEPT ![t].pc = "stats"]
       ELSE /\ manager' = manager
            /\ ithreads' = [ithreads EXCEPT ![t].pc = "except", ![t].msg = "build"]
    /\ iev' = IEv("build", t, manager.index, "none", "none")
    /\ UNCHANGED <<corpus, index_calls, builds, last_good>>

\* rebuild, lines 75-94: the counts and the build time, then append_job_history
RebuildStats(t, ok) ==
    /\ ithreads[t].pc = "stats"
    /\ manager' = [manager EXCEPT !.chunk_count = ithreads[t].records,
                                  !.document_count = ithreads[t].docs,
                                  !.last_build_at = builds + 1]
    /\ builds' = builds + 1
    /\ IF ok
       THEN /\ ithreads' = [ithreads EXCEPT ![t] =
                   IF @.op = "query" THEN [@ EXCEPT !.pc = "recheck"] ELSE IdleThread]
            /\ last_good' = [document_count |-> ithreads[t].docs,
                             chunk_count |-> ithreads[t].records,
                             last_build_at |-> builds + 1]
            /\ iev' = IEv("rebuilt", t, manager.index, "none", "returned")
       ELSE /\ ithreads' = [ithreads EXCEPT ![t].pc = "except", ![t].msg = "history"]
            /\ last_good' = last_good
            /\ iev' = IEv("stats", t, manager.index, "none", "none")
    /\ UNCHANGED <<corpus, index_calls>>

\* rebuild, lines 95-99: the handler drops the index, records the error and re-raises
RebuildExcept(t) ==
    /\ ithreads[t].pc = "except"
    /\ manager' = rebuild_except(manager, ithreads[t].msg)
    /\ ithreads' = [ithreads EXCEPT ![t] = IdleThread]
    /\ iev' = IEv("rebuild_failed", t, manager.index, ithreads[t].msg, "raised")
    /\ UNCHANGED <<corpus, index_calls, builds, last_good>>

\* query, lines 104-105: if self._index is None: return []
QueryRecheck(t) ==
    /\ ithreads[t].pc = "recheck"
    /\ IF manager.index = NoIndex
       THEN /\ ithreads' = [ithreads EXCEPT ![t] = IdleThread]
            /\ iev' = IEv("query", t, manager.index, "none", "empty")
       ELSE /\ ithreads' = [ithreads EXCEPT ![t].pc = "use"]
            /\ iev' = IEv("recheck", t, manager.index, "none", "none")
    /\ UNCHANGED <<manager, corpus, index_calls, builds, last_good>>

\* query, lines 106-110: self._index is read again and asked for the hits
QueryUse(t) ==
    /\ ithreads[t].pc = "use"
    /\ ithreads' = [ithreads EXCEPT ![t] = IdleThread]
    /\ iev' = IEv("query", t, manager.index, "none",
                  IF manager.index = NoIndex THEN "raised" ELSE "hits")
    /\ UNCHANGED <<manager, corpus, index_calls, builds, last_good>>

IndexNext ==
    /\ \/ \E k \in {0, 1} : IngestDocument(k)
       \/ \E t \in IndexThreads, op \in {"query", "rebuild"} : IndexCall(t, op)
       \/ \E t \in IndexThreads : QueryCheck(t)
       \/ \E t \in IndexThreads, ok \in BOOLEAN : RebuildEnsure(t, ok)
       \/ \E t \in IndexThreads, ok \in BOOLEAN : RebuildLoad(t, ok)
       \/ \E t \in IndexThreads, ok \in BOOLEAN : RebuildBuild(t, ok)
       \/ \E t \in IndexThreads, ok \in BOOLEAN : RebuildStats(t, ok)
       \/ \E t \in IndexThreads : RebuildExcept(t)
       \/ \E t \in IndexThreads : QueryRecheck(t)
       \/ \E t \in IndexThreads : QueryUse(t)
    /\ UNCHANGED <<rerank_vars, queue_vars, pipeline_vars>>

IndexInit == RerankIdle /\ QueueIdle /\ IndexIdle /\ PipelineIdle

SpecIndex == IndexInit /\ [][IndexNext]_vars

----------------------------------------------------------------------------
(* Claims about the index manager.                                         *)

\* C19: when a rebuild() ends in an exception, whichever step raised it, the manager
\* holds no index and the error message is in health().errors.
C19_FailedRebuildDiscards ==
    iev.op \in {"rebuild_failed", "rebuild_raised"} =>
        /\ manager.index = NoIndex
        /\ iev.msg \in health_errors(manager)

\* C19 for the steps inside the try block of rebuild(): loading, building, and the
\* job-history entry after the counts are set
C19_FailureInsideTryDiscards ==
    iev.op = "rebuild_failed" =>
        /\ manager.index = NoIndex
        /\ iev.msg \in health_errors(manager)

\* a rebuild has failed inside the try block while an index was in place
C19_FailureInsideTryReached ==
    /\ iev.op = "rebuild_failed"
    /\ iev.pre.built

\* the threads whose query() is inside the rebuild it started
ImplicitRebuilds == {t \in IndexThreads : ithreads[t].op = "query" /\ ithreads[t].pc \in RebuildPcs}

\* C20: while the index has never been built, at most one rebuild started by a
\* query() is running, however many queries are in progress.
C20_OneImplicitRebuild ==
    manager.last_build_at = 0 => Cardinality(ImplicitRebuilds) <= 1

\* C21: a query() that has found an index in place returns a result list: it does
\* not end in an exception because the index reference changed between its check
\* (lines 102, 104) and its use (lines 107-110).
C21_QueryNeverFailsOnSwap ==
    iev.op = "query" => iev.result \in {"hits", "empty"}

\* health(): the counts and the build time a caller sees
health_counts(m) ==
    [document_count |-> m.document_count, chunk_count |-> m.chunk_count,
     last_build_at |-> m.last_build_at]

\* C30: after a rebuild() that failed, health() reports the counts and the build time
\* of the last rebuild that returned, a non-empty error list, and there is no index.
C30_FailedRebuildKeepsCounts ==
    iev.op = "rebuild_failed" =>
        /\ health_counts(manager) = last_good
        /\ Len(manager.errors) > 0
        /\ manager.index = NoIndex

----------------------------------------------------------------------------
(* The chunker: paragraphs, segments and the packing loop. *)

\* the document texts explored
Texts == UNION {[1..n -> Chars] : n \in 0..MaxTextLen}

BOUNDARY_CHARS == {"."}

\* str.isspace() of one character
isspace(ch) == ch \in {" ", "\n"}

\* "not line.strip()" is false: the line has a character that is not whitespace
strip_nonempty(line) == \E k \in 1..Len(line) : ~isspace(line[k])

\* text[a:b] for 0 <= a: the slice is cut at the end of the text
slice(t, a, b) == SubSeq(t, a + 1, IF b > Len(t) THEN Len(t) ELSE b)

RECURSIVE splitlines(_, _, _)
\* text.splitlines(keepends=True) from position i (counted from 1), cur is the
\* line read so far
splitlines(t, i, cur) ==
    IF i > Len(t)
    THEN IF cur = <<>> THEN <<>> ELSE <<cur>>
    ELSE IF t[i] = "\n"
    THEN <<Append(cur, t[i])>> \o splitlines(t, i + 1, <<>>)
    ELSE splitlines(t, i + 1, Append(cur, t[i]))

\* para_start = None
None == 0 - 1

\* "para_start or 0"
or_0(para_start) == IF para_start = None THEN 0 ELSE para_start

RECURSIVE iter_lines(_, _, _)
\* the loop of _iter_paragraphs over lines[k..], st = [paragraphs, pos,
\* para_start, buffer, para_index]; the result includes the append after the loop
iter_lines(lines, k, st) ==
    IF k > Len(lines)
    THEN IF st.buffer # <<>>
         THEN Append(st.paragraphs,
                     [text |-> st.buffer, start |-> or_0(st.para_start), index |-> st.para_index])
         ELSE st.paragraphs
    ELSE LET line == lines[k]
         IN  IF ~strip_nonempty(line)
             THEN iter_lines(lines, k + 1,
                    IF st.buffer # <<>>
                    THEN [paragraphs |-> Append(st.paragraphs,
                                           [text |-> st.buffer, start |-> or_0(st.para_start),
                                            index |-> st.para_index]),
                          pos |-> st.pos + Len(line), para_start |-> None,
                          buffer |-> <<>>, para_index |-> st.para_index + 1]
                    ELSE [st EXCEPT !.pos = @ + Len(line)])
             ELSE iter_lines(lines, k + 1,
                    [st EXCEPT !.para_start = IF st.buffer = <<>> THEN st.pos ELSE @,
                               !.buffer = @ \o line,
                               !.pos = @ + Len(line)])

\* _iter_paragraphs(text): sequence of [text, start, index]
iter_paragraphs(t) ==
    iter_lines(splitlines(t, 1, <<>>), 1,
               [paragraphs |-> <<>>, pos |-> 0, para_start |-> None,
                buffer |-> <<>>, para_index |-> 0])

RECURSIVE trim_start(_, _, _)
\* first loop of _trim_span
trim_start(t, start, end) ==
    IF start < end /\ isspace(t[start + 1]) THEN trim_start(t, start + 1, end) ELSE start

RECURSIVE trim_end(_, _, _)
\* second loop of _trim_span
trim_end(t, start, end) ==
    IF end > start /\ isspace(t[end]) THEN trim_end(t, start, end - 1) ELSE end

\* _trim_span(text, start, end)
trim_span(t, start, end) ==
    LET s == trim_start(t, start, end)
    IN  [start |-> s, end |-> trim_end(t, s, end)]

\* variant of the append: an empty span is appended too (sensitivity of C24)
append_span_unguarded(acc, tr, para_index) ==
    Append(acc, [start |-> tr.start, end |-> tr.end, para |-> para_index])

\* "if end_idx > start_idx: spans.append(...)"
append_span(acc, tr, para_index) ==
    IF tr.end > tr.start
    THEN Append(acc, [start |-> tr.start, end |-> tr.end, para |-> para_index])
    ELSE acc

RECURSIVE para_spans(_, _, _, _, _)
\* the body of the paragraph loop of _segment_spans from character i (counted
\* from 0) of the paragraph, with the segment after the last character
para_spans(t, p, i, local_start, acc) ==
    IF i >= Len(p.text)
    THEN IF local_start < Len(p.text)
         THEN append_span(acc, trim_span(t, p.start + local_start, p.start + Len(p.text)),
                          p.index)
         ELSE acc
    ELSE IF p.text[i + 1] \in BOUNDARY_CHARS
    THEN para_spans(t, p, i + 1, i + 1,
                    append_span(acc, trim_span(t, p.start + local_start, p.start + i + 1),
                                p.index))
    ELSE para_spans(t, p, i + 1, local_start, acc)

RECURSIVE all_para_spans(_, _, _, _)
all_para_spans(t, paragraphs, k, acc) ==
    IF k > Len(paragraphs) THEN acc
    ELSE all_para_spans(t, paragraphs, k + 1, para_spans(t, paragraphs[k], 0, 0, acc))

\* _segment_spans(text)
segment_spans(t) ==
    LET found == all_para_spans(t, iter_paragraphs(t), 1, <<>>)
    IN  IF found = <<>> /\ strip_nonempty(t)
        THEN append_span(found, trim_span(t, 0, Len(t)), 0)
        ELSE found

RECURSIVE para_end_of(_, _, _)
\* lines 88-90: the index after the last segment of the paragraph
para_end_of(sp, para_end, para_index) ==
    IF para_end < Len(sp) /\ sp[para_end + 1].para = para_index
    THEN para_end_of(sp, para_end + 1, para_index)
    ELSE para_end

RECURSIVE pack(_, _, _, _, _, _)
\* lines 93-95: take segments while the passage stays within max_chars
pack(sp, next_idx, para_end, start_idx, end_idx, mc) ==
    IF next_idx < para_end /\ sp[next_idx + 1].end - start_idx <= mc
    THEN pack(sp, next_idx + 1, para_end, start_idx, sp[next_idx + 1].end, mc)
    ELSE [end_idx |-> end_idx, next_idx |-> next_idx]

RECURSIVE walk_back(_, _, _, _, _)
\* lines 123-125: back_idx after the walk over the packed segments
walk_back(sp, i, back_idx, overlap_len, ov) ==
    IF back_idx >= i /\ overlap_len < ov
    THEN walk_back(sp, i, back_idx - 1,
                   overlap_len + (sp[back_idx + 1].end - sp[back_idx + 1].start), ov)
    ELSE back_idx

\* variant of lines 115-127: without overlap the next passage starts after the
\* segment that did not fit (sensitivity of C25)
next_start_skip(sp, i, next_idx, para_end, ov) ==
    IF next_idx >= para_end THEN para_end
    ELSE IF ov <= 0 THEN next_idx + 1
    ELSE Max(walk_back(sp, i, next_idx - 1, 0, ov) + 1, i + 1)

\* variant of lines 115-127: the walk back alone decides (sensitivity of C28)
next_start_no_minimum(sp, i, next_idx, para_end, ov) ==
    IF next_idx >= para_end THEN para_end
    ELSE IF ov <= 0 THEN next_idx
    ELSE walk_back(sp, i, next_idx - 1, 0, ov) + 1

\* lines 115-127: the index the next iteration starts at
next_start(sp, i, next_idx, para_end, ov) ==
    IF next_idx >= para_end THEN para_end
    ELSE IF ov <= 0 THEN next_idx
    ELSE Max(walk_back(sp, i, next_idx - 1, 0, ov) + 1, i + 1)

\* lines 80-85: the segments are computed; without segments the result is []
SegmentSpans ==
    /\ chunk_pc = "entry"
    /\ spans' = segment_spans(text)
    /\ chunk_pc' = IF spans' = <<>> THEN "returned" ELSE "loop"
    /\ UNCHANGED <<text, max_chars, overlap, idx, chunks>>

\* lines 86-127: one iteration of the packing loop
PackPassage ==
    /\ chunk_pc = "loop"
    /\ idx < Len(spans)
    /\ LET first == spans[idx + 1]
           start_idx == first.start
           para_end == para_end_of(spans, idx, first.para)
           packed == pack(spans, idx + 1, para_end, start_idx,
                          Max(first.end, start_idx), max_chars)
       IN  /\ chunks' = Append(chunks,
                          [text |-> slice(text, start_idx, packed.end_idx),
                           start_idx |-> start_idx, end_idx |-> packed.end_idx,
                           para |-> first.para, idx |-> idx])
           /\ idx' = next_start(spans, idx, packed.next_idx, para_end, overlap)
    /\ UNCHANGED <<text, max_chars, overlap, spans, chunk_pc>>

\* line 86 is false, line 128: return chunks
ChunkReturn ==
    /\ chunk_pc = "loop"
    /\ idx >= Len(spans)
    /\ chunk_pc' = "returned"
    /\ UNCHANGED <<text, max_chars, overlap, spans, idx, chunks>>

ChunkNext == SegmentSpans \/ PackPassage \/ ChunkReturn

\* a call simple_paragraph_chunk(text, doc_id, max_chars, overlap)
ChunkInit ==
    /\ text \in Texts
    /\ max_chars \in 0..MaxChars
    /\ overlap \in 0..MaxOverlap
    /\ spans = <<>>
    /\ idx = 0
    /\ chunks = <<>>
    /\ chunk_pc = "entry"
    /\ RerankIdle /\ QueueIdle /\ IndexIdle /\ IngestIdle /\ EmbedIdle

SpecChunk ==
    ChunkInit /\ [][ChunkNext /\ UNCHANGED <<rerank_vars, queue_vars, index_vars,
                                            ingest_vars, embed_vars>>]_vars

----------------------------------------------------------------------------
(* ingest_content: the Document row and the chunk set. *)

NoDocument == [version |-> 0, by |-> 0]
NoDocs == [d \in DocIds |-> NoDocument]
IdleIngester == [pc |-> "idle", doc |-> "none", docs |-> NoDocs, version |-> 0, ing |-> 0]
IngEv(op, doc, before, after) == [op |-> op, doc |-> doc, before |-> before, after |-> after]

\* upsert_document lines 931-934: the version of the document to store, from
\* the manifest as loaded; Document.version defaults to 1
upsert_version(docs, d) ==
    IF docs[d].version > 0 THEN docs[d].version + 1 ELSE 1

\* save_manifest(docs.values()): rows that are not among docs are deleted,
\* every document of docs is written
save_manifest(docs) == docs

\* ingest_content lines 54-87: normalise, chunk, write the raw file, build the Document
IngestStart(t, d) ==
    /\ ingesters[t].pc = "idle"
    /\ ingests < MaxIngests
    /\ ingests' = ingests + 1
    /\ ingesters' = [ingesters EXCEPT ![t] =
                        [pc |-> "load", doc |-> d, docs |-> NoDocs, version |-> 1,
                         ing |-> ingests + 1]]
    /\ ingev' = IngEv("start", d, 0, 0)
    /\ UNCHANGED <<manifest, chunk_store>>

\* upsert_document lines 931-934: load the manifest, choose the version
UpsertLoad(t) ==
    /\ ingesters[t].pc = "load"
    /\ ingesters' = [ingesters EXCEPT ![t].pc = "save",
                                      ![t].docs = manifest,
                                      ![t].version = upsert_version(manifest, ingesters[t].doc)]
    /\ ingev' = IngEv("load", ingesters[t].doc, 0, 0)
    /\ UNCHANGED <<manifest, chunk_store, ingests>>

\* upsert_document lines 935-938: docs[doc_id] = document; save_manifest(docs.values())
UpsertSave(t) ==
    /\ ingesters[t].pc = "save"
    /\ LET me == ingesters[t]
           docs == [me.docs EXCEPT ![me.doc] = [version |-> me.version, by |-> me.ing]]
       IN  /\ manifest' = save_manifest(docs)
           /\ ingev' = IngEv("upsert", me.doc, manifest[me.doc].version, me.version)
    /\ ingesters' = [ingesters EXCEPT ![t].pc = "chunks"]
    /\ UNCHANGED <<chunk_store, ingests>>

\* ingest_content line 89: save_chunks replaces the chunk set of the document
SaveChunks(t) ==
    /\ ingesters[t].pc = "chunks"
    /\ chunk_store' = [chunk_store EXCEPT ![ingesters[t].doc] = ingesters[t].ing]
    /\ ingesters' = [ingesters EXCEPT ![t].pc = "history"]
    /\ ingev' = IngEv("save_chunks", ingesters[t].doc, 0, 0)
    /\ UNCHANGED <<manifest, ingests>>

\* ingest_content lines 91-122: the job history entry and the return
IngestReturn(t) ==
    /\ ingesters[t].pc = "history"
    /\ ingesters' = [ingesters EXCEPT ![t] = IdleIngester]
    /\ ingev' = IngEv("returned", ingesters[t].doc, 0, 0)
    /\ UNCHANGED <<manifest, chunk_store, ingests>>

\* materialize_document, load_manifest, save_manifest or save_chunks raises
\* before it has written: ingest_content has no handler, the exception leaves it
IngestFail(t) ==
    /\ ingesters[t].pc \in {"load", "save", "chunks"}
    /\ ingesters' = [ingesters EXCEPT ![t] = IdleIngester]
    /\ ingev' = IngEv("raised", ingesters[t].doc, 0, 0)
    /\ UNCHANGED <<manifest, chunk_store, ingests>>

IngestNext ==
    \/ \E t \in IngestThreads, d \in DocIds : IngestStart(t, d)
    \/ \E t \in IngestThreads : UpsertLoad(t)
    \/ \E t \in IngestThreads : UpsertSave(t)
    \/ \E t \in IngestThreads : SaveChunks(t)
    \/ \E t \in IngestThreads : IngestReturn(t)
    \/ \E t \in IngestThreads : IngestFail(t)

IngestInit == RerankIdle /\ QueueIdle /\ IndexIdle /\ PipelineIdle

SpecIngest ==
    IngestInit /\ [][IngestNext /\ UNCHANGED <<rerank_vars, queue_vars, index_vars,
                                              chunk_vars, embed_vars>>]_vars

\* C22: the version an ingestion stores for a doc_id is 1 when storage held no
\* Document of that doc_id, and otherwise exactly one greater than the version
\* storage held just before the write.
C22_VersionIncrementsByOne ==
    ingev.op = "upsert" => ingev.after = ingev.before + 1

\* no ingest_content call is in progress
NoIngestion == \A t \in IngestThreads : ingesters[t].pc = "idle"

\* C23: once every ingestion has completed or failed, the Document of each
\* doc_id and its chunk set come from the same ingestion: there is no Document
\* without that ingestion's chunk set and no chunk set without its Document.
C23_DocumentAndChunksOneUnit ==
    NoIngestion => \A d \in DocIds : manifest[d].by = chunk_store[d]

----------------------------------------------------------------------------
(* embed_texts and the dense vectors of HybridIndex. *)

\* an item of the response whose "embedding" is not a list
NotAList == 0 - 1

\* what one item of a response's "data" can hold
Items == {NotAList, PSEUDO_DIM, ModelDim}

\* what one client.post of a batch can come back with: an exception (transport
\* error, HTTP error status, a body that is not JSON), or up to MaxTexts items
EmbedResponses ==
    {[ok |-> FALSE, data |-> <<>>]} \cup
    {[ok |-> TRUE, data |-> d] : d \in UNION {[1..k -> Items] : k \in 0..MaxTexts}}

\* SILICONFLOW_EMBED_BATCH_SIZE explored
EmbedBatchSizes == {1, 2}

RECURSIVE chunk_embed_inputs(_, _)
\* _chunk_embed_inputs for texts well below the character limit: the lengths of
\* the batches of n texts
chunk_embed_inputs(n, max_batch_size) ==
    IF n = 0 THEN <<>>
    ELSE IF n <= max_batch_size THEN <<n>>
    ELSE <<max_batch_size>> \o chunk_embed_inputs(n - max_batch_size, max_batch_size)

\* [_pseudo_embedding(text) for text in texts]
pseudo_embeddings(n) == [k \in 1..n |-> PSEUDO_DIM]

\* "if isinstance(vec, list): batch_embeddings.append(vec)"
batch_embeddings_of(data) == SelectSeq(data, LAMBDA vec : vec # NotAList)

RECURSIVE embed_batches(_, _, _, _, _, _)
\* the loop of embed_texts over the batches from batch k; acc are the vectors
\* collected so far, expected_dim is 0 while it is None
embed_batches(n, batches, responses, k, acc, expected_dim) ==
    IF k > Len(batches)
    THEN IF Len(acc) = n THEN acc ELSE pseudo_embeddings(n)
    ELSE LET r == responses[k]
             be == batch_embeddings_of(r.data)
             dim == IF expected_dim = 0 /\ be # <<>> THEN be[1] ELSE expected_dim
         IN  IF \/ ~r.ok
                \/ Len(be) # batches[k]
                \/ be = <<>>
                \/ \E j \in 1..Len(be) : be[j] # dim
             THEN pseudo_embeddings(n)
             ELSE embed_batches(n, batches, responses, k + 1, acc \o be, dim)

\* embed_texts(texts) for n texts
embed_texts(n, enabled_key, batch_size, responses) ==
    IF n = 0 THEN <<>>
    ELSE IF ~enabled_key THEN pseudo_embeddings(n)
    ELSE embed_batches(n, chunk_embed_inputs(n, batch_size), responses, 1, <<>>, 0)

\* HybridIndex.__init__ over n chunk texts (index.py lines 53-61)
BuildIndex(n, batch_size, responses) ==
    /\ embed_calls < MaxEmbedCalls
    /\ embed_calls' = embed_calls + 1
    /\ LET result == embed_texts(n, api_key, batch_size, responses)
       IN  /\ embeddings' = result
           /\ embev' = [op |-> "build", n |-> n, responses |-> responses, result |-> result]
    /\ UNCHANGED <<api_key, qv>>

\* HybridIndex.query lines 66-67: the query vector is embedded and scored
\* against the stored vectors
QueryIndex(batch_size, response) ==
    /\ embeddings # <<>>
    /\ embed_calls < MaxEmbedCalls
    /\ embed_calls' = embed_calls + 1
    /\ LET result == embed_texts(1, api_key, batch_size, <<response>>)
       IN  /\ qv' = result[1]
           /\ embev' = [op |-> "query", n |-> 1, responses |-> <<response>>, result |-> result]
    /\ UNCHANGED <<api_key, embeddings>>

EmbedNext ==
    \/ \E n \in 1..MaxTexts, b \in EmbedBatchSizes :
          \E responses \in [1..Len(chunk_embed_inputs(n, b)) -> EmbedResponses] :
              BuildIndex(n, b, responses)
    \/ \E b \in EmbedBatchSizes, response \in EmbedResponses : QueryIndex(b, response)

EmbedInit ==
    /\ api_key \in BOOLEAN
    /\ embeddings = <<>>
    /\ qv = 0
    /\ embed_calls = 0
    /\ embev = [op |-> "none", n |-> 0, responses |-> <<>>, result |-> <<>>]
    /\ RerankIdle /\ QueueIdle /\ IndexIdle /\ ChunkIdle /\ IngestIdle

SpecEmbed ==
    EmbedInit /\ [][EmbedNext /\ UNCHANGED <<rerank_vars, queue_vars, index_vars,
                                            chunk_vars, ingest_vars>>]_vars

\* C26: every embed call returns one vector per input text, all of one
\* dimension, and the query vector of a query has the dimension of every
\* vector stored in the index it is scored against.
C26_NoDimensionMismatch ==
    /\ embev.op # "none" =>
          /\ Len(embev.result) = embev.n
          /\ \A i, j \in 1..Len(embev.result) : embev.result[i] = embev.result[j]
    /\ embev.op = "query" => \A i \in 1..Len(embeddings) : embeddings[i] = qv

\* the part of C26 about one embed call: one vector per input text, all of one
\* dimension (all from the provider or all from the fallback)
C26_OneCallOneDimension ==
    embev.op # "none" =>
        /\ Len(embev.result) = embev.n
        /\ \A i, j \in 1..Len(embev.result) : embev.result[i] = embev.result[j]

----------------------------------------------------------------------------
(* Properties of the chunker *)

\* position p (counted from 0) lies inside passage c
Inside(p, c) == c.start_idx <= p /\ p < c.end_idx

\* position p lies inside at least one passage appended so far
Covered(p) == \E k \in 1..Len(chunks) : Inside(p, chunks[k])

\* C24: every passage has 0 <= start_idx < end_idx <= len(text), and the
\* characters of the text from start_idx up to end_idx are the passage's text.
C24_OffsetRoundTrip ==
    \A k \in 1..Len(chunks) :
        /\ 0 <= chunks[k].start_idx
        /\ chunks[k].start_idx < chunks[k].end_idx
        /\ chunks[k].end_idx <= Len(text)
        /\ Len(chunks[k].text) = chunks[k].end_idx - chunks[k].start_idx
        /\ \A p \in chunks[k].start_idx .. chunks[k].end_idx - 1 :
               text[p + 1] = chunks[k].text[p - chunks[k].start_idx + 1]

C24_Witness ==
    /\ chunk_pc = "returned"
    /\ Len(chunks) = 2
    /\ chunks[1].start_idx = 1
    /\ chunks[2].para = 1
    /\ chunks[1].end_idx < chunks[2].start_idx

\* C25 as stated: when the chunker has returned for a non-empty text with
\* overlap < max_chars, every character position lies inside a passage.
C25_EveryCharCovered ==
    (chunk_pc = "returned" /\ text # <<>> /\ overlap < max_chars) =>
        \A p \in 0..Len(text) - 1 : Covered(p)

\* C25: when the chunker has returned, every position of the text that holds a
\* character other than whitespace lies inside a passage, for every max_chars
\* and overlap; whitespace before, between and after the segments can lie
\* outside every passage.
C25_NonWhitespaceCovered ==
    chunk_pc = "returned" =>
        \A p \in 0..Len(text) - 1 : ~isspace(text[p + 1]) => Covered(p)

C25_Witness ==
    /\ chunk_pc = "returned"
    /\ overlap < max_chars
    /\ Len(chunks) = 2
    /\ chunks[1].para = chunks[2].para
    /\ \E p \in 0..Len(text) - 1 : isspace(text[p + 1]) /\ ~Covered(p)
    /\ \A p \in 0..Len(text) - 1 : ~isspace(text[p + 1]) => Covered(p)

\* C28: every iteration of the packing loop moves the starting segment index
\* forward by at least one and not beyond the number of segments, so the loop
\* ends after at most len(spans) iterations: there are never more passages
\* than segments, and the passages' start offsets are strictly increasing.
\* This holds for every max_chars and overlap, overlap >= max_chars included.
C28_MinimumAdvance ==
    /\ [](/\ idx <= Len(spans)
          /\ Len(chunks) <= idx
          /\ \A k \in 1..Len(chunks) - 1 : chunks[k].start_idx < chunks[k + 1].start_idx)
    /\ [][chunks' # chunks => (idx' >= idx + 1 /\ Len(chunks') = Len(chunks) + 1)]_vars

C28_Witness ==
    /\ chunk_pc = "returned"
    /\ overlap >= max_chars
    /\ max_chars >= 1
    /\ Len(spans) = 3
    /\ Len(chunks) = 3
    /\ chunks[1].para = chunks[3].para

====
